---- MODULE Spec2Model ----
(***************************************************************************)
(* A model of four parts of the RAJA kernel layer:                         *)
(*   - the HIP ForICount statement executors                               *)
(*       (include/RAJA/policy/hip/kernel/ForICount.hpp),                   *)
(*   - the sequential reduction protocol init / combine / resolve          *)
(*       (new_reduce/sequential/reduce.hpp),                               *)
(*   - the kernel lambda argument helper: descriptor normalisation and     *)
(*       argument extraction (include/RAJA/pattern/kernel/ArgHelper.hpp),  *)
(*   - the fused multiply-add expression node                              *)
(*       (include/RAJA/pattern/tensor/internal/ET/TensorMultiplyAdd.hpp).  *)
(* Each part has its own specification (SpecFor, and SpecDiff for segment  *)
(* lengths at the maximum of diff_t; SpecRed; SpecParse, SpecCat and       *)
(* SpecExtract for the argument helper; SpecTensor); the variables of the  *)
(* other parts stay at their idle values.                                  *)
(***************************************************************************)
EXTENDS Integers, Sequences, FiniteSets, TLC

VARIABLES
  policy,        \* the execution policy of the ForICount statement
  len,           \* segment_length<ArgumentId>(data)
  blockDim,      \* number of threads of the block (threadIdx.x in 0..blockDim-1)
  mask,          \* the BitMask of a masked policy: [width, shift]
  tactive,       \* thread_active each thread enters exec with
  data,          \* each thread's Data: the offset slot ArgumentId, the param slot
                 \* ParamId, and how often each was assigned
  fpc,           \* each thread's position in exec: "entry", "loop", "done"
  ii,            \* each thread's loop counter (ii of the strided loops, i of seq_exec)
  calls,         \* each thread's log of enclosed_stmts_t::exec(data, active) calls
  rop,           \* the OP of the reduction
  red,           \* the reducers of one reduction: val, and where each stands
  contrib,       \* the value each reducer's kernel body contributes
  target,        \* *target, the accumulator all the reducers point to
  rhist,         \* history of the reduction: *target at the start, the number of
                 \* resolve calls, whether one came early, the last operation
  args,          \* the argument descriptors of a Lambda statement, as declared
  targList,      \* the normalised descriptor list
  ctx,           \* the execution context: segment, offset and param tuples
  ctx0,          \* the execution context before extraction
  argTuple,      \* the tuple call_extractor::make_tuple returned
  ret,           \* what the last extract_arg returned, and for which position
  apc,           \* position of the argument helper's caller
  tma,           \* the TensorMultiplyAdd node: its three stored operands
  tma_in,        \* the operands its constructor was given
  tma_calls,     \* log of the multiply_op::multiply_add calls
  tma_rets,      \* log of what each eval(tile) returned
  cat_in,        \* three descriptor lists a, b, c given to catList
  cat_out,       \* the lists catList::makeList returned for them
  cat_done       \* which of the concatenations were made

forVars == <<policy, len, blockDim, mask, tactive, data, fpc, ii, calls>>

redVars == <<rop, red, contrib, target, rhist>>

argVars == <<args, targList, ctx, ctx0, argTuple, ret, apc>>

tenVars == <<tma, tma_in, tma_calls, tma_rets>>

catVars == <<cat_in, cat_out, cat_done>>

vars == <<forVars, redVars, argVars, tenVars, catVars>>


----------------------------------------------------------------------------
(* Bounds of the model *)

MaxLen == 3
MaxThreads == 3
MaxMaskWidth == 2
MaxMaskShift == 1

\* RAJA::policy::hip::WARP_SIZE, scaled down (64 on the device)
WARP_SIZE == 2

MaxArgs == 2
MaxListIds == 2

\* the longest descriptor list given to catList
MaxCatLen == 2

MaxReducers == 3
MaxResolves == 2

\* the largest element of an operand, and how many eval calls a node gets
MaxElem == 2
MaxEvals == 2

\* the largest value of diff_t, scaled down (2^63 - 1 on the device)
DiffMax == 15

\* the largest value of the reducers' value type T (an unsigned type)
TMax == 255

----------------------------------------------------------------------------
(* Helpers *)

RECURSIVE Pow2(_)
Pow2(n) == IF n = 0 THEN 1 ELSE 2 * Pow2(n - 1)

Threads == 0 .. (blockDim - 1)

----------------------------------------------------------------------------
(* The execution context (Data) as the executors use it *)

assign_offset(d, i) ==
  [d EXCEPT !.offset = i, !.offset_writes = @ + 1]

assign_param(d, i) ==
  [d EXCEPT !.param = i, !.param_writes = @ + 1]

\* what one invocation of the enclosed statement list observes
enclosed_stmts_exec(d, active) ==
  [data |-> d,
   call |-> [offset |-> d.offset, param |-> d.param, active |-> active,
             offset_writes |-> d.offset_writes, param_writes |-> d.param_writes]]

\* Mask::maskValue(x) = (x >> shift) & (2^width - 1); Mask::max_masked_size = 2^width
maskValue(m, x) == (x \div Pow2(m.shift)) % Pow2(m.width)

max_masked_size(m) == Pow2(m.width)

\* Indexer::index<diff_t>() and Indexer::size<diff_t>() of a thread-x indexer
Indexer_index(tx) == tx

\* mutant: the indexer reports a size of zero
Indexer_size_zero(bdim) == 0

Indexer_size(bdim) == bdim

----------------------------------------------------------------------------
(* The direct executors: one exec call, the whole body *)

\* mutant: the bound test is left out of the active flag
hip_warp_direct_exec_nobound(d, tx, len_, thread_active) ==
  LET i  == tx
      d1 == assign_offset(d, i)
      d2 == assign_param(d1, i)
  IN  enclosed_stmts_exec(d2, thread_active)

hip_warp_direct_exec(d, tx, len_, thread_active) ==
  LET i  == tx
      d1 == assign_offset(d, i)
      d2 == assign_param(d1, i)
  IN  enclosed_stmts_exec(d2, thread_active /\ (i < len_))

hip_warp_masked_direct_exec(d, m, tx, len_, thread_active) ==
  LET i  == maskValue(m, tx)
      d1 == assign_offset(d, i)
      d2 == assign_param(d1, i)
  IN  enclosed_stmts_exec(d2, thread_active /\ (i < len_))

\* mutant: the unit id is used without the mask
hip_thread_masked_direct_exec_raw(d, m, tx, len_, thread_active) ==
  LET i  == tx
      d1 == assign_offset(d, i)
      d2 == assign_param(d1, i)
  IN  enclosed_stmts_exec(d2, thread_active /\ (i < len_))

hip_thread_masked_direct_exec(d, m, tx, len_, thread_active) ==
  LET i  == maskValue(m, tx)
      d1 == assign_offset(d, i)
      d2 == assign_param(d1, i)
  IN  enclosed_stmts_exec(d2, thread_active /\ (i < len_))

\* mutant: the incoming thread_active is left out of the active flag
HipIndexDirect_exec_nothread(d, tx, len_, thread_active) ==
  LET i  == Indexer_index(tx)
      d1 == assign_offset(d, i)
      d2 == assign_param(d1, i)
  IN  enclosed_stmts_exec(d2, i < len_)

HipIndexDirect_exec(d, tx, len_, thread_active) ==
  LET i  == Indexer_index(tx)
      d1 == assign_offset(d, i)
      d2 == assign_param(d1, i)
  IN  enclosed_stmts_exec(d2, thread_active /\ (i < len_))

----------------------------------------------------------------------------
(* The strided executors: i_init, i_stride, and the body of one iteration  *)
(* of  for (diff_t ii = 0; ii < len; ii += i_stride)                       *)

\* mutant: a unit leaves the loop as soon as its own index is out of bounds
strided_loop_cond_early(ii_, i_init, len_) == ii_ + i_init < len_

\* the loop condition of the four strided loops: ii < len, whatever i_init is
strided_loop_cond(ii_, i_init, len_) == ii_ < len_

hip_warp_loop_i_init(tx) == tx

hip_warp_loop_i_stride == WARP_SIZE

\* mutant: have_work tests i <= len
hip_warp_loop_body_le(d, ii_, i_init, len_, thread_active) ==
  LET i  == ii_ + i_init
      have_work == i <= len_
      d1 == assign_offset(d, i)
      d2 == assign_param(d1, i)
  IN  enclosed_stmts_exec(d2, thread_active /\ have_work)

hip_warp_loop_body(d, ii_, i_init, len_, thread_active) ==
  LET i  == ii_ + i_init
      have_work == i < len_
      d1 == assign_offset(d, i)
      d2 == assign_param(d1, i)
  IN  enclosed_stmts_exec(d2, thread_active /\ have_work)

hip_warp_masked_loop_i_init(m, tx) == maskValue(m, tx)

hip_warp_masked_loop_i_stride(m) == max_masked_size(m)

\* mutant: threads without work are not masked off
hip_warp_masked_loop_body_nomask(d, ii_, i_init, len_, thread_active) ==
  LET i  == ii_ + i_init
      d1 == assign_offset(d, i)
      d2 == assign_param(d1, i)
  IN  enclosed_stmts_exec(d2, thread_active)

hip_warp_masked_loop_body(d, ii_, i_init, len_, thread_active) ==
  LET i  == ii_ + i_init
      have_work == i < len_
      d1 == assign_offset(d, i)
      d2 == assign_param(d1, i)
  IN  enclosed_stmts_exec(d2, thread_active /\ have_work)

hip_thread_masked_loop_i_init(m, tx) == maskValue(m, tx)

hip_thread_masked_loop_i_stride(m) == max_masked_size(m)

\* mutant: the parameter slot is assigned after the enclosed statements ran
hip_thread_masked_loop_body_late(d, ii_, i_init, len_, thread_active) ==
  LET i  == ii_ + i_init
      have_work == i < len_
      d1 == assign_offset(d, i)
      r  == enclosed_stmts_exec(d1, thread_active /\ have_work)
  IN  [data |-> assign_param(r.data, i), call |-> r.call]

hip_thread_masked_loop_body(d, ii_, i_init, len_, thread_active) ==
  LET i  == ii_ + i_init
      have_work == i < len_
      d1 == assign_offset(d, i)
      d2 == assign_param(d1, i)
  IN  enclosed_stmts_exec(d2, thread_active /\ have_work)

HipIndexLoop_i_init(tx) == Indexer_index(tx)

HipIndexLoop_i_stride(bdim) == Indexer_size(bdim)

\* mutant: the start index is left out of the loop index
HipIndexLoop_body_noinit(d, ii_, i_init, len_, thread_active) ==
  LET i  == ii_
      have_work == i < len_
      d1 == assign_offset(d, i)
      d2 == assign_param(d1, i)
  IN  enclosed_stmts_exec(d2, thread_active /\ have_work)

HipIndexLoop_body(d, ii_, i_init, len_, thread_active) ==
  LET i  == ii_ + i_init
      have_work == i < len_
      d1 == assign_offset(d, i)
      d2 == assign_param(d1, i)
  IN  enclosed_stmts_exec(d2, thread_active /\ have_work)

----------------------------------------------------------------------------
(* The sequential executor: the body of one iteration of                   *)
(*  for (diff_t i = 0; i < len; ++i)                                       *)

\* mutant: the enclosed statements are always invoked as active
seq_exec_body_always(d, i, thread_active) ==
  LET d1 == assign_offset(d, i)
      d2 == assign_param(d1, i)
  IN  enclosed_stmts_exec(d2, TRUE)

seq_exec_body(d, i, thread_active) ==
  LET d1 == assign_offset(d, i)
      d2 == assign_param(d1, i)
  IN  enclosed_stmts_exec(d2, thread_active)

\* mutant: the loop runs while i <= len
seq_exec_cond_le(i, len_) == i <= len_

seq_exec_cond(i, len_) == i < len_

----------------------------------------------------------------------------
(* Policies *)

DirectPolicies ==
  {"hip_warp_direct", "hip_warp_masked_direct", "hip_thread_masked_direct",
   "HipIndexDirect"}

LoopPolicies ==
  {"hip_warp_loop", "hip_warp_masked_loop", "hip_thread_masked_loop",
   "HipIndexLoop"}

MaskedPolicies ==
  {"hip_warp_masked_direct", "hip_warp_masked_loop",
   "hip_thread_masked_direct", "hip_thread_masked_loop"}

WarpMaskedPolicies == {"hip_warp_masked_direct", "hip_warp_masked_loop"}

Policies == DirectPolicies \cup LoopPolicies \cup {"seq_exec"}

\* static_assert(mask_t::max_masked_size <= WARP_SIZE) of the warp masked executors
mask_static_assert(m) == max_masked_size(m) <= WARP_SIZE

NoMask == [width |-> 0, shift |-> 0]

\* the BitMasks of the model: at least one bit wide
Masks == [width : 1 .. MaxMaskWidth, shift : 0 .. MaxMaskShift]

MasksOf(p) ==
  IF p \in WarpMaskedPolicies THEN {m \in Masks : mask_static_assert(m)}
  ELSE IF p \in MaskedPolicies THEN Masks
  ELSE {NoMask}

\* the start index and the stride of a strided executor, per policy
i_init_of(p, m, tx) ==
  CASE p = "hip_warp_loop"          -> hip_warp_loop_i_init(tx)
    [] p = "hip_warp_masked_loop"   -> hip_warp_masked_loop_i_init(m, tx)
    [] p = "hip_thread_masked_loop" -> hip_thread_masked_loop_i_init(m, tx)
    [] p = "HipIndexLoop"           -> HipIndexLoop_i_init(tx)

i_stride_of(p, m, bdim) ==
  CASE p = "hip_warp_loop"          -> hip_warp_loop_i_stride
    [] p = "hip_warp_masked_loop"   -> hip_warp_masked_loop_i_stride(m)
    [] p = "hip_thread_masked_loop" -> hip_thread_masked_loop_i_stride(m)
    [] p = "HipIndexLoop"           -> HipIndexLoop_i_stride(bdim)

direct_exec(p, d, m, tx, len_, ta) ==
  CASE p = "hip_warp_direct"          -> hip_warp_direct_exec(d, tx, len_, ta)
    [] p = "hip_warp_masked_direct"   -> hip_warp_masked_direct_exec(d, m, tx, len_, ta)
    [] p = "hip_thread_masked_direct" -> hip_thread_masked_direct_exec(d, m, tx, len_, ta)
    [] p = "HipIndexDirect"           -> HipIndexDirect_exec(d, tx, len_, ta)

loop_body(p, d, ii_, i_init, len_, ta) ==
  CASE p = "hip_warp_loop"          -> hip_warp_loop_body(d, ii_, i_init, len_, ta)
    [] p = "hip_warp_masked_loop"   -> hip_warp_masked_loop_body(d, ii_, i_init, len_, ta)
    [] p = "hip_thread_masked_loop" -> hip_thread_masked_loop_body(d, ii_, i_init, len_, ta)
    [] p = "HipIndexLoop"           -> HipIndexLoop_body(d, ii_, i_init, len_, ta)

----------------------------------------------------------------------------
(* Argument descriptors and their normalisation *)

\* the ids of the dimensions and parameters of the context
Ids == {0, 1, 2}

Seg(id) == [kind |-> "Seg", ids |-> <<id>>]

OffSet(id) == [kind |-> "OffSet", ids |-> <<id>>]

Param(id) == [kind |-> "Param", ids |-> <<id>>]

SegList(ids) == [kind |-> "SegList", ids |-> ids]

OffSetList(ids) == [kind |-> "OffSetList", ids |-> ids]

ParamList(ids) == [kind |-> "ParamList", ids |-> ids]

\* a type that is no descriptor
Other == [kind |-> "Other", ids |-> << >>]

\* mutant: the items of the second list come first
catList_makeList_swap(A, B) == B \o A

\* catList<camp::list<itemsA...>, camp::list<itemsB...>>::makeList, and the
\* specialisation for an empty second list
catList_makeList(A, B) == IF B = << >> THEN A ELSE A \o B

RECURSIVE listMaker_genList(_)

\* listMaker<SegList<head, tail...>>::genList
listMaker_SegList_genList(head, tail) ==
  catList_makeList(<<Seg(head)>>, listMaker_genList(SegList(tail)))

\* listMaker<OffSetList<head, tail...>>::genList
listMaker_OffSetList_genList(head, tail) ==
  catList_makeList(<<OffSet(head)>>, listMaker_genList(OffSetList(tail)))

\* mutant: the tail of the list is generated before the head
listMaker_ParamList_genList_rev(head, tail) ==
  catList_makeList(listMaker_genList(ParamList(tail)), <<Param(head)>>)

\* listMaker<ParamList<head, tail...>>::genList
listMaker_ParamList_genList(head, tail) ==
  catList_makeList(<<Param(head)>>, listMaker_genList(ParamList(tail)))

\* listMaker<Arg>::genList: the specialisation that matches Arg; the primary
\* template, which yields camp::list<>, when none does
listMaker_genList(arg) ==
  CASE arg.kind = "SegList" /\ arg.ids # << >> ->
         listMaker_SegList_genList(Head(arg.ids), Tail(arg.ids))
    [] arg.kind = "Seg" -> <<Seg(arg.ids[1])>>
    [] arg.kind = "OffSet" -> <<OffSet(arg.ids[1])>>
    [] arg.kind = "OffSetList" /\ arg.ids # << >> ->
         listMaker_OffSetList_genList(Head(arg.ids), Tail(arg.ids))
    [] arg.kind = "ParamList" /\ arg.ids # << >> ->
         listMaker_ParamList_genList(Head(arg.ids), Tail(arg.ids))
    [] arg.kind = "Param" -> <<Param(arg.ids[1])>>
    [] OTHER -> << >>

\* parser<camp::list<Head, Tail...>>::checkArgs, parser<camp::list<>>::checkArgs
RECURSIVE parser_checkArgs(_)
parser_checkArgs(list) ==
  IF list = << >> THEN << >>
  ELSE catList_makeList(listMaker_genList(Head(list)), parser_checkArgs(Tail(list)))

----------------------------------------------------------------------------
(* catList on its own: three lists concatenated in both groupings *)

CatItems == {Seg(0), Param(1)}

CatLists == UNION {[1 .. k -> CatItems] : k \in 0 .. MaxCatLen}

NoCat == [ab |-> << >>, ab_c |-> << >>, bc |-> << >>, a_bc |-> << >>,
          a_e |-> << >>, e_a |-> << >>]

IdleCat ==
  /\ cat_in = << >> /\ cat_out = NoCat /\ cat_done = {}

InitCat ==
  /\ cat_in \in [a : CatLists, b : CatLists, c : CatLists]
  /\ cat_out = NoCat /\ cat_done = {}

\* makeList(makeList(a, b), c)
ConcatLeft ==
  /\ cat_in # << >> /\ "left" \notin cat_done
  /\ LET ab == catList_makeList(cat_in.a, cat_in.b)
     IN  cat_out' = [cat_out EXCEPT !.ab = ab,
                                    !.ab_c = catList_makeList(ab, cat_in.c)]
  /\ cat_done' = cat_done \cup {"left"}
  /\ UNCHANGED cat_in
  /\ UNCHANGED <<forVars, redVars, argVars, tenVars>>

\* makeList(a, makeList(b, c))
ConcatRight ==
  /\ cat_in # << >> /\ "right" \notin cat_done
  /\ LET bc == catList_makeList(cat_in.b, cat_in.c)
     IN  cat_out' = [cat_out EXCEPT !.bc = bc,
                                    !.a_bc = catList_makeList(cat_in.a, bc)]
  /\ cat_done' = cat_done \cup {"right"}
  /\ UNCHANGED cat_in
  /\ UNCHANGED <<forVars, redVars, argVars, tenVars>>

\* makeList(a, camp::list<>) and makeList(camp::list<>, a)
ConcatEmpty ==
  /\ cat_in # << >> /\ "empty" \notin cat_done
  /\ cat_out' = [cat_out EXCEPT !.a_e = catList_makeList(cat_in.a, << >>),
                                !.e_a = catList_makeList(<< >>, cat_in.a)]
  /\ cat_done' = cat_done \cup {"empty"}
  /\ UNCHANGED cat_in
  /\ UNCHANGED <<forVars, redVars, argVars, tenVars>>

NextCat == ConcatLeft \/ ConcatRight \/ ConcatEmpty

----------------------------------------------------------------------------
(* Argument extraction *)

\* camp::get<id>(tuple)
get(id, tuple) == tuple[id + 1]

\* what extract_arg returns refers into the context: an offset slot, a param
\* slot, or the element of a segment at a position
Value(d, h) ==
  CASE h.slot = "offset"  -> get(h.id, d.offset_tuple)
    [] h.slot = "param"   -> get(h.id, d.param_tuple)
    [] h.slot = "segment" -> get(h.at, get(h.id, d.segment_tuple))

\* extractor<OffSet<id>>::extract_arg
extractor_OffSet_extract_arg(id, d) ==
  [data |-> d, ret |-> [slot |-> "offset", id |-> id, at |-> 0]]

\* mutant: the segment is read at its first element
extractor_Seg_extract_arg_begin(id, d) ==
  [data |-> d, ret |-> [slot |-> "segment", id |-> id, at |-> 0]]

\* extractor<Seg<id>>::extract_arg
extractor_Seg_extract_arg(id, d) ==
  [data |-> d,
   ret |-> [slot |-> "segment", id |-> id, at |-> get(id, d.offset_tuple)]]

\* mutant: extraction resets the parameter it hands out
extractor_Param_extract_arg_reset(id, d) ==
  [data |-> [d EXCEPT !.param_tuple[id + 1] = 0],
   ret |-> [slot |-> "param", id |-> id, at |-> 0]]

\* extractor<Param<id>>::extract_arg
extractor_Param_extract_arg(id, d) ==
  [data |-> d, ret |-> [slot |-> "param", id |-> id, at |-> 0]]

extractor_extract_arg(desc, d) ==
  CASE desc.kind = "OffSet" -> extractor_OffSet_extract_arg(desc.ids[1], d)
    [] desc.kind = "Seg"    -> extractor_Seg_extract_arg(desc.ids[1], d)
    [] desc.kind = "Param"  -> extractor_Param_extract_arg(desc.ids[1], d)

\* call_extractor<camp::list<Args...>>::make_tuple:
\* camp::make_tuple(extractor<Args>::extract_arg(data) ...); camp::make_tuple
\* stores decayed copies of its arguments, so the tuple holds the values
RECURSIVE call_extractor_make_tuple(_, _)
call_extractor_make_tuple(list, d) ==
  IF list = << >> THEN [data |-> d, ret |-> << >>]
  ELSE LET r    == extractor_extract_arg(Head(list), d)
           rest == call_extractor_make_tuple(Tail(list), r.data)
       IN  [data |-> rest.data, ret |-> <<Value(r.data, r.ret)>> \o rest.ret]

----------------------------------------------------------------------------
(* State machines of the argument helper *)

\* sequences over S of length 0 .. n
SeqsUpTo(S, n) == UNION {[1 .. k -> S] : k \in 0 .. n}

\* id lists without repetition
IdLists == {l \in SeqsUpTo(Ids, MaxListIds) : \A i, j \in DOMAIN l : i # j => l[i] # l[j]}

Singles == {Seg(id) : id \in Ids} \cup {OffSet(id) : id \in Ids} \cup {Param(id) : id \in Ids}

Lists == {SegList(l) : l \in IdLists} \cup {OffSetList(l) : l \in IdLists}
           \cup {ParamList(l) : l \in IdLists}

Items == Singles \cup Lists \cup {Other}

\* the segments of the context: each one a list of index values
Segments == << <<10, 11>>, <<20, 21>>, <<30, 31>> >>

ParamVals == {7, 9}

NoCtx == [segment_tuple |-> << >>, offset_tuple |-> << >>, param_tuple |-> << >>]

NoRet == [k |-> 0, h |-> [slot |-> "none", id |-> 0, at |-> 0], wrote |-> 0]

IdleArg ==
  /\ args = << >> /\ targList = << >> /\ ctx = NoCtx /\ ctx0 = NoCtx
  /\ argTuple = << >> /\ ret = NoRet /\ apc = "idle"

\* normalisation: any declared argument list
InitParse ==
  /\ args \in SeqsUpTo(Items, MaxArgs)
  /\ targList = << >> /\ ctx = NoCtx /\ ctx0 = NoCtx
  /\ argTuple = << >> /\ ret = NoRet /\ apc = "start"

CheckArgs ==
  /\ apc = "start"
  /\ targList' = parser_checkArgs(args)
  /\ apc' = "parsed"
  /\ UNCHANGED <<args, ctx, ctx0, argTuple, ret>>
  /\ UNCHANGED <<forVars, redVars, tenVars, catVars>>

NextParse == CheckArgs

\* extraction: any normalised list, any context with its offsets in range
InitExtract ==
  /\ args = << >>
  /\ targList \in SeqsUpTo(Singles, MaxArgs)
  /\ \E off \in [DOMAIN Segments -> 0 .. 1], par \in [DOMAIN Segments -> ParamVals] :
       ctx = [segment_tuple |-> Segments, offset_tuple |-> off, param_tuple |-> par]
  /\ ctx0 = ctx
  /\ argTuple = << >> /\ ret = NoRet /\ apc = "start"

\* auto argTuple = call_extractor<targList>::make_tuple(data)
MakeTuple ==
  /\ apc = "start"
  /\ LET r == call_extractor_make_tuple(targList, ctx)
     IN  /\ argTuple' = r.ret
         /\ ctx' = r.data
  /\ apc' = "tuple"
  /\ UNCHANGED <<args, targList, ctx0, ret>>
  /\ UNCHANGED <<forVars, redVars, tenVars, catVars>>

\* extractor<targList[k]>::extract_arg(data)
ExtractArg(k) ==
  /\ apc = "start"
  /\ LET r == extractor_extract_arg(targList[k], ctx)
     IN  /\ ret' = [k |-> k, h |-> r.ret, wrote |-> 0]
         /\ ctx' = r.data
  /\ apc' = "ref"
  /\ UNCHANGED <<args, targList, ctx0, argTuple>>
  /\ UNCHANGED <<forVars, redVars, tenVars, catVars>>

\* the kernel body adds one to the Param argument at position k of the tuple
BodyWriteTuple(k) ==
  /\ apc = "tuple"
  /\ targList[k].kind = "Param"
  /\ argTuple' = [argTuple EXCEPT ![k] = @ + 1]
  /\ ret' = [ret EXCEPT !.k = k, !.wrote = argTuple[k] + 1]
  /\ apc' = "tuple_written"
  /\ UNCHANGED <<args, targList, ctx, ctx0>>
  /\ UNCHANGED <<forVars, redVars, tenVars, catVars>>

\* the kernel body adds one through the reference extract_arg returned for a Param
BodyWriteRef ==
  /\ apc = "ref"
  /\ ret.h.slot = "param"
  /\ ctx' = [ctx EXCEPT !.param_tuple[ret.h.id + 1] = @ + 1]
  /\ ret' = [ret EXCEPT !.wrote = Value(ctx, ret.h) + 1]
  /\ apc' = "ref_written"
  /\ UNCHANGED <<args, targList, ctx0, argTuple>>
  /\ UNCHANGED <<forVars, redVars, tenVars, catVars>>

NextExtract ==
  \/ MakeTuple
  \/ \E k \in DOMAIN targList : ExtractArg(k)
  \/ \E k \in DOMAIN targList : BodyWriteTuple(k)
  \/ BodyWriteRef

----------------------------------------------------------------------------
(* The sequential reduction protocol *)

Ops == {"plus", "minimum", "maximum"}

\* OP{}(a, b) on the unsigned type T
Op(o, a, b) ==
  CASE o = "plus"    -> (a + b) % (TMax + 1)
    [] o = "minimum" -> IF a < b THEN a ELSE b
    [] o = "maximum" -> IF a < b THEN b ELSE a

\* OP::identity()
identity(o) ==
  CASE o = "plus"    -> 0
    [] o = "minimum" -> TMax
    [] o = "maximum" -> 0

\* mutant: init leaves val as it was
detail_init_keep(o, r) == r

\* detail::init(red)
detail_init(o, r) == [r EXCEPT !.val = identity(o)]

\* mutant: combine overwrites out.val with in.val
detail_combine_overwrite(o, out, in) == [out EXCEPT !.val = in.val]

\* detail::combine(out, in): the new out
detail_combine(o, out, in) == [out EXCEPT !.val = Op(o, out.val, in.val)]

\* mutant: resolve overwrites *target with val
detail_resolve_overwrite(o, r, tgt) == r.val

\* detail::resolve(red): the new *red.target
detail_resolve(o, r, tgt) == Op(o, r.val, tgt)

\* the kernel body of a replica accumulates its value into val
body_contribute(o, r, v) == [r EXCEPT !.val = Op(o, r.val, v)]

\* What a call can reach is the reducers and *target: mem = [red, target].
\* Each call below maps the memory before it to the memory after it.

\* init(red[r])
init_call(o, mem, r) ==
  [mem EXCEPT !.red[r] = detail_init(o, @)]

\* mutant: combine moves from in, leaving the identity behind
combine_call_move(o, mem, out, in) ==
  [mem EXCEPT !.red[out] = detail_combine(o, @, mem.red[in]),
              !.red[in].val = identity(o)]

\* combine(red[out], red[in])
combine_call(o, mem, out, in) ==
  [mem EXCEPT !.red[out] = detail_combine(o, @, mem.red[in])]

\* mutant: resolve hands val over, leaving the identity behind
resolve_call_consume(o, mem, r) ==
  [mem EXCEPT !.target = detail_resolve(o, mem.red[r], @),
              !.red[r].val = identity(o)]

\* resolve(red[r])
resolve_call(o, mem, r) ==
  [mem EXCEPT !.target = detail_resolve(o, mem.red[r], @)]

\* values the model draws from
Vals == {1, 3, 5}

Targets == {0, 10}

RawVals == {7}

Reducers == DOMAIN red

NoOp == [kind |-> "none", out |-> 0, in |-> 0, pre_out |-> 0, pre_in |-> 0, pre_target |-> 0]

IdleRed ==
  /\ rop = "none" /\ red = << >> /\ contrib = << >> /\ target = 0
  /\ rhist = [t0 |-> 0, resolves |-> 0, early |-> FALSE, last |-> NoOp]

InitRed ==
  /\ rop \in Ops
  /\ \E n \in 1 .. MaxReducers :
       /\ contrib \in [1 .. n -> Vals]
       /\ \E raw \in RawVals : red = [r \in 1 .. n |-> [val |-> raw, phase |-> "new"]]
  /\ target \in Targets
  /\ rhist = [t0 |-> target, resolves |-> 0, early |-> FALSE, last |-> NoOp]

\* init(red[r]), in program order
RInit(r) ==
  /\ red[r].phase = "new"
  /\ \A q \in Reducers : q < r => red[q].phase # "new"
  /\ LET mem == init_call(rop, [red |-> red, target |-> target], r)
     IN  /\ red' = [mem.red EXCEPT ![r].phase = "inited"]
         /\ target' = mem.target
  /\ rhist' = [rhist EXCEPT !.last =
       [kind |-> "init", out |-> r, in |-> 0,
        pre_out |-> red[r].val, pre_in |-> 0, pre_target |-> target]]
  /\ UNCHANGED <<rop, contrib>>

\* the kernel body of replica r runs, in program order
RContribute(r) ==
  /\ red[r].phase = "inited"
  /\ \A q \in Reducers : red[q].phase # "new" /\ (q < r => red[q].phase # "inited")
  /\ red' = [red EXCEPT ![r] =
       [body_contribute(rop, @, contrib[r]) EXCEPT !.phase = "holding"]]
  /\ rhist' = [rhist EXCEPT !.last =
       [kind |-> "contribute", out |-> r, in |-> 0,
        pre_out |-> red[r].val, pre_in |-> 0, pre_target |-> target]]
  /\ UNCHANGED <<rop, contrib, target>>

\* combine(red[out], red[in]): replica in is merged into replica out
RCombine(out, in) ==
  /\ out # in
  /\ red[out].phase = "holding" /\ red[in].phase = "holding"
  /\ LET mem == combine_call(rop, [red |-> red, target |-> target], out, in)
     IN  /\ red' = [mem.red EXCEPT ![in].phase = "merged"]
         /\ target' = mem.target
  /\ rhist' = [rhist EXCEPT !.last =
       [kind |-> "combine", out |-> out, in |-> in,
        pre_out |-> red[out].val, pre_in |-> red[in].val, pre_target |-> target]]
  /\ UNCHANGED <<rop, contrib>>

\* resolve(red[r]); nothing stops a caller from resolving early or twice
RResolve(r) ==
  /\ red[r].phase = "holding"
  /\ rhist.resolves < MaxResolves
  /\ LET mem == resolve_call(rop, [red |-> red, target |-> target], r)
     IN  /\ red' = mem.red
         /\ target' = mem.target
  /\ rhist' = [rhist EXCEPT
       !.resolves = @ + 1,
       !.early = @ \/ (\E q \in Reducers : q # r /\ red[q].phase # "merged"),
       !.last = [kind |-> "resolve", out |-> r, in |-> 0,
                 pre_out |-> red[r].val, pre_in |-> 0, pre_target |-> target]]
  /\ UNCHANGED <<rop, contrib>>

NextRed ==
  \/ \E r \in Reducers : RInit(r) /\ UNCHANGED <<forVars, argVars, tenVars, catVars>>
  \/ \E r \in Reducers : RContribute(r) /\ UNCHANGED <<forVars, argVars, tenVars, catVars>>
  \/ \E out \in Reducers, in \in Reducers : RCombine(out, in) /\ UNCHANGED <<forVars, argVars, tenVars, catVars>>
  \/ \E r \in Reducers : RResolve(r) /\ UNCHANGED <<forVars, argVars, tenVars, catVars>>

----------------------------------------------------------------------------
(* State machine of the ForICount executors: every thread of the block     *)
(* runs exec(data, thread_active) on its own Data                          *)

\* the values of diff_t, the signed difference type of the segment
diff_t == (0 - DiffMax - 1) .. DiffMax

Data0 == [offset |-> 0, param |-> 0, offset_writes |-> 0, param_writes |-> 0]

IdleFor ==
  /\ policy = "none" /\ len = 0 /\ blockDim = 0 /\ mask = NoMask
  /\ tactive = << >> /\ data = << >> /\ fpc = << >> /\ ii = << >> /\ calls = << >>

InitFor ==
  /\ policy \in Policies
  /\ len \in 0 .. MaxLen
  /\ blockDim \in 1 .. MaxThreads
  /\ mask \in MasksOf(policy)
  /\ tactive \in [Threads -> BOOLEAN]
  /\ data = [t \in Threads |-> Data0]
  /\ fpc = [t \in Threads |-> "entry"]
  /\ ii = [t \in Threads |-> 0]
  /\ calls = [t \in Threads |-> << >>]

\* segment lengths at the upper end of diff_t
BoundaryLens == (DiffMax - 1) .. DiffMax

\* exec entered with a segment as long as diff_t can represent
InitDiff ==
  /\ policy \in Policies
  /\ len \in BoundaryLens
  /\ blockDim \in 1 .. MaxThreads
  /\ mask \in MasksOf(policy)
  /\ tactive \in [Threads -> BOOLEAN]
  /\ data = [t \in Threads |-> Data0]
  /\ fpc = [t \in Threads |-> "entry"]
  /\ ii = [t \in Threads |-> 0]
  /\ calls = [t \in Threads |-> << >>]

Invoke(t, r) ==
  /\ data' = [data EXCEPT ![t] = r.data]
  /\ calls' = [calls EXCEPT ![t] = Append(@, r.call)]

\* a direct executor: the whole exec call
ExecDirect(t) ==
  /\ policy \in DirectPolicies
  /\ fpc[t] = "entry"
  /\ Invoke(t, direct_exec(policy, data[t], mask, t, len, tactive[t]))
  /\ fpc' = [fpc EXCEPT ![t] = "done"]
  /\ UNCHANGED <<policy, len, blockDim, mask, tactive, ii>>
  /\ UNCHANGED <<redVars, argVars, tenVars, catVars>>

\* a strided or sequential executor: reads len, sets the loop counter to 0
EnterLoop(t) ==
  /\ policy \in LoopPolicies \cup {"seq_exec"}
  /\ fpc[t] = "entry"
  /\ ii' = [ii EXCEPT ![t] = 0]
  /\ fpc' = [fpc EXCEPT ![t] = "loop"]
  /\ UNCHANGED <<policy, len, blockDim, mask, tactive, data, calls>>
  /\ UNCHANGED <<redVars, argVars, tenVars, catVars>>

\* one iteration of a strided loop: ii < len, the body, ii += i_stride.
\* diff_t is a signed type: an addition that leaves its range is undefined
\* behaviour, and what the thread does from there on is not defined by the
\* language; the thread is then at "undefined" and is followed no further
\* (ii keeps the last value it had in range).
StridedIter(t) ==
  /\ policy \in LoopPolicies
  /\ fpc[t] = "loop"
  /\ strided_loop_cond(ii[t], i_init_of(policy, mask, t), len)
  /\ LET i_init   == i_init_of(policy, mask, t)
         i_stride == i_stride_of(policy, mask, blockDim)
     IN  IF ii[t] + i_init \notin diff_t
         THEN \* diff_t i = ii + i_init overflows
              /\ fpc' = [fpc EXCEPT ![t] = "undefined"]
              /\ UNCHANGED <<data, calls, ii>>
         ELSE /\ Invoke(t, loop_body(policy, data[t], ii[t], i_init, len, tactive[t]))
              /\ IF ii[t] + i_stride \in diff_t
                 THEN /\ ii' = [ii EXCEPT ![t] = @ + i_stride]
                      /\ UNCHANGED fpc
                 ELSE \* ii += i_stride overflows
                      /\ fpc' = [fpc EXCEPT ![t] = "undefined"]
                      /\ UNCHANGED ii
  /\ UNCHANGED <<policy, len, blockDim, mask, tactive>>
  /\ UNCHANGED <<redVars, argVars, tenVars, catVars>>

\* one iteration of the sequential loop: i < len, the body, ++i
SeqIter(t) ==
  /\ policy = "seq_exec"
  /\ fpc[t] = "loop"
  /\ seq_exec_cond(ii[t], len)
  /\ Invoke(t, seq_exec_body(data[t], ii[t], tactive[t]))
  /\ ii' = [ii EXCEPT ![t] = @ + 1]
  /\ UNCHANGED <<policy, len, blockDim, mask, tactive, fpc>>
  /\ UNCHANGED <<redVars, argVars, tenVars, catVars>>

\* the loop condition fails: exec returns
ExitLoop(t) ==
  /\ policy \in LoopPolicies \cup {"seq_exec"}
  /\ fpc[t] = "loop"
  /\ IF policy = "seq_exec"
       THEN ~seq_exec_cond(ii[t], len)
       ELSE ~strided_loop_cond(ii[t], i_init_of(policy, mask, t), len)
  /\ fpc' = [fpc EXCEPT ![t] = "done"]
  /\ UNCHANGED <<policy, len, blockDim, mask, tactive, data, ii, calls>>
  /\ UNCHANGED <<redVars, argVars, tenVars, catVars>>

NextFor ==
  \/ \E t \in Threads : ExecDirect(t)
  \/ \E t \in Threads : EnterLoop(t)
  \/ \E t \in Threads : StridedIter(t)
  \/ \E t \in Threads : SeqIter(t)
  \/ \E t \in Threads : ExitLoop(t)

----------------------------------------------------------------------------
(* The fused multiply-add expression node TensorMultiplyAdd                *)

\* the tiles an expression is evaluated on
Tiles == {0, 1}

\* an operand expression: what it evaluates to on each tile
Operands == [Tiles -> 0 .. MaxElem]

\* MultiplyOperator<LEFT, RIGHT>::multiply_add(tile, left, right, add):
\* left * right + add on the tile, as one fused operation
MultiplyOperator_multiply_add(tile, left, right, add) ==
  left[tile] * right[tile] + add[tile]

\* TensorMultiplyAdd(left_operand, right_operand, add_operand)
TensorMultiplyAdd_new(left_operand, right_operand, add_operand) ==
  [m_left_operand  |-> left_operand,
   m_right_operand |-> right_operand,
   m_add_operand   |-> add_operand]

\* mutant: the add operand and the left operand change places in the call
TensorMultiplyAdd_eval_swapped(self, tile) ==
  [self  |-> self,
   calls |-> <<[tile |-> tile, left |-> self.m_add_operand,
                right |-> self.m_right_operand, add |-> self.m_left_operand]>>,
   ret   |-> MultiplyOperator_multiply_add(tile, self.m_add_operand,
                                           self.m_right_operand, self.m_left_operand)]

\* eval(tile) const: the node after the call, the multiply_add calls it
\* made, and what it returned
TensorMultiplyAdd_eval(self, tile) ==
  [self  |-> self,
   calls |-> <<[tile |-> tile, left |-> self.m_left_operand,
                right |-> self.m_right_operand, add |-> self.m_add_operand]>>,
   ret   |-> MultiplyOperator_multiply_add(tile, self.m_left_operand,
                                           self.m_right_operand, self.m_add_operand)]

NoNode == [m_left_operand |-> << >>, m_right_operand |-> << >>, m_add_operand |-> << >>]

IdleTensor ==
  /\ tma = NoNode /\ tma_in = << >> /\ tma_calls = << >> /\ tma_rets = << >>

InitTensor == IdleTensor

\* the node is constructed from three operand expressions
Construct(l, r, a) ==
  /\ tma = NoNode
  /\ tma' = TensorMultiplyAdd_new(l, r, a)
  /\ tma_in' = [left |-> l, right |-> r, add |-> a]
  /\ UNCHANGED <<tma_calls, tma_rets>>
  /\ UNCHANGED <<forVars, redVars, argVars, catVars>>

\* one eval(tile) call on the node
Eval(tile) ==
  /\ tma # NoNode
  /\ Len(tma_rets) < MaxEvals
  /\ LET e == TensorMultiplyAdd_eval(tma, tile)
     IN  /\ tma' = e.self
         /\ tma_calls' = tma_calls \o e.calls
         /\ tma_rets' = Append(tma_rets, [tile |-> tile, value |-> e.ret])
  /\ UNCHANGED tma_in
  /\ UNCHANGED <<forVars, redVars, argVars, catVars>>

NextTensor ==
  \/ \E l \in Operands, r \in Operands, a \in Operands : Construct(l, r, a)
  \/ \E tile \in Tiles : Eval(tile)

----------------------------------------------------------------------------
(* Specifications *)

InitSpecFor == InitFor /\ IdleRed /\ IdleArg /\ IdleTensor /\ IdleCat

SpecFor == InitSpecFor /\ [][NextFor]_vars

InitSpecDiff == InitDiff /\ IdleRed /\ IdleArg /\ IdleTensor /\ IdleCat

SpecDiff == InitSpecDiff /\ [][NextFor]_vars

InitSpecRed == InitRed /\ IdleFor /\ IdleArg /\ IdleTensor /\ IdleCat

SpecRed == InitSpecRed /\ [][NextRed]_vars

InitSpecParse == InitParse /\ IdleFor /\ IdleRed /\ IdleTensor /\ IdleCat

SpecParse == InitSpecParse /\ [][NextParse]_vars

InitSpecExtract == InitExtract /\ IdleFor /\ IdleRed /\ IdleTensor /\ IdleCat

InitSpecTensor == InitTensor /\ IdleFor /\ IdleRed /\ IdleArg /\ IdleCat

InitSpecCat == InitCat /\ IdleFor /\ IdleRed /\ IdleArg /\ IdleTensor

SpecTensor == InitSpecTensor /\ [][NextTensor]_vars

SpecCat == InitSpecCat /\ [][NextCat]_vars

SpecExtract == InitSpecExtract /\ [][NextExtract]_vars

AllDone == \A t \in Threads : fpc[t] = "done"

\* one step of thread t
ThreadStep(t) ==
  /\ t \in Threads
  /\ ExecDirect(t) \/ EnterLoop(t) \/ StridedIter(t) \/ SeqIter(t) \/ ExitLoop(t)

----------------------------------------------------------------------------
(* Properties of the argument helper *)

DescriptorKinds == {"Seg", "OffSet", "Param", "SegList", "OffSetList", "ParamList"}

\* the single descriptor kind of the elements of a descriptor
ElementKind(kind) ==
  CASE kind \in {"Seg", "SegList"}       -> "Seg"
    [] kind \in {"OffSet", "OffSetList"} -> "OffSet"
    [] kind \in {"Param", "ParamList"}   -> "Param"

\* the number of ids of the first j declared arguments
RECURSIVE IdsBefore(_)
IdsBefore(j) == IF j = 0 THEN 0 ELSE IdsBefore(j - 1) + Len(args[j].ids)

\* the declared arguments with every list descriptor replaced, in place,
\* by its element descriptors: position p holds the id of the declared
\* argument whose range of ids covers p
InPlaceExpansion ==
  [p \in 1 .. IdsBefore(Len(args)) |->
     LET j == CHOOSE j \in DOMAIN args : IdsBefore(j - 1) < p /\ p <= IdsBefore(j)
     IN  [kind |-> ElementKind(args[j].kind), ids |-> <<args[j].ids[p - IdsBefore(j - 1)]>>]]

\* C6: descriptor normalisation preserves order. For a declared list of
\* Seg, OffSet, Param, SegList, OffSetList and ParamList descriptors,
\* checkArgs yields the list with each list descriptor replaced in place by
\* its element descriptors, in declared order; the empty list yields the
\* empty list.
C6_NormalizationOrder ==
  (apc = "parsed" /\ \A j \in DOMAIN args : args[j].kind \in DescriptorKinds) =>
    /\ targList = InPlaceExpansion
    /\ args = << >> => targList = << >>

\* [SegList<0,1>, Param<2>] became [Seg<0>, Seg<1>, Param<2>]
C6_Witness ==
  /\ apc = "parsed"
  /\ args = <<SegList(<<0, 1>>), Param(2)>>
  /\ targList = <<Seg(0), Seg(1), Param(2)>>

\* the value a descriptor stands for in the context the extraction started from
ExpectedValue(desc) ==
  LET id == desc.ids[1]
  IN  CASE desc.kind = "OffSet" -> ctx0.offset_tuple[id + 1]
        [] desc.kind = "Seg"    -> ctx0.segment_tuple[id + 1][ctx0.offset_tuple[id + 1] + 1]
        [] desc.kind = "Param"  -> ctx0.param_tuple[id + 1]

\* C7: argument extraction values. make_tuple returns one value per
\* descriptor, in order: OffSet<id> the offset of id, Seg<id> the segment of
\* id at the offset of id, Param<id> the parameter of id; and each
\* extract_arg refers to that same value.
C7_ExtractionValues ==
  /\ apc = "tuple" =>
       /\ Len(argTuple) = Len(targList)
       /\ \A k \in DOMAIN targList : argTuple[k] = ExpectedValue(targList[k])
  /\ apc = "ref" => Value(ctx, ret.h) = ExpectedValue(targList[ret.k])

\* [Seg<1>, Param<2>] with offset 1 in dimension 1 gave (21, 9)
C7_Witness ==
  /\ apc = "tuple"
  /\ targList = <<Seg(1), Param(2)>>
  /\ ctx0.offset_tuple[2] = 1 /\ ctx0.param_tuple[3] = 9
  /\ argTuple = <<21, 9>>

C9_ExtractionReadOnly ==
  apc \in {"tuple", "ref"} => ctx = ctx0

\* a tuple of two arguments, a parameter among them, was extracted
C9_Witness ==
  /\ apc = "tuple"
  /\ Len(argTuple) = 2
  /\ \E k \in DOMAIN targList : targList[k].kind = "Param"
  /\ ctx = ctx0

\* C25: normalisation never loses an argument. A normalised list has one
\* element per single descriptor and per id of a list descriptor, and it
\* exists only for declared lists all of whose items are Seg, OffSet, Param,
\* SegList, OffSetList or ParamList with at least one id: any other item
\* fails the build.
C25_NoArgumentLost ==
  apc = "parsed" =>
    /\ Len(targList) = IdsBefore(Len(args))
    /\ \A j \in DOMAIN args :
         args[j].kind \in DescriptorKinds /\ args[j].ids # << >>

\* list L is the items of X in their order, followed by those of Y in theirs
IsConcat(L, X, Y) ==
  /\ Len(L) = Len(X) + Len(Y)
  /\ \A i \in 1 .. Len(X) : L[i] = X[i]
  /\ \A j \in 1 .. Len(Y) : L[Len(X) + j] = Y[j]

\* C24: descriptor-list concatenation. makeList(A, B) is A's items followed
\* by B's items, each in their original order; makeList(makeList(A, B), C)
\* and makeList(A, makeList(B, C)) are the same sequence; makeList with the
\* empty list on either side returns the other list unchanged.
C24_CatListMonoid ==
  /\ "left" \in cat_done =>
       /\ IsConcat(cat_out.ab, cat_in.a, cat_in.b)
       /\ IsConcat(cat_out.ab_c, cat_out.ab, cat_in.c)
  /\ "right" \in cat_done =>
       /\ IsConcat(cat_out.bc, cat_in.b, cat_in.c)
       /\ IsConcat(cat_out.a_bc, cat_in.a, cat_out.bc)
  /\ {"left", "right"} \subseteq cat_done => cat_out.ab_c = cat_out.a_bc
  /\ "empty" \in cat_done => (cat_out.a_e = cat_in.a /\ cat_out.e_a = cat_in.a)

\* three different non-empty lists were concatenated in both groupings, and
\* the first of them with the empty list on both sides
C24_Witness ==
  /\ cat_done = {"left", "right", "empty"}
  /\ cat_in.a = <<Seg(0), Param(1)>> /\ cat_in.b = <<Param(1)>>
  /\ cat_in.c = <<Param(1), Seg(0)>>
  /\ cat_out.ab_c = <<Seg(0), Param(1), Param(1), Param(1), Seg(0)>>
  /\ cat_out.a_bc = cat_out.ab_c
  /\ cat_out.a_e = cat_in.a /\ cat_out.e_a = cat_in.a

----------------------------------------------------------------------------
(* Properties of the reduction protocol *)

\* Op(...Op(Op(id, v[1]), v[2])..., v[n])
RECURSIVE FoldLeft(_, _, _)
FoldLeft(o, v, n) == IF n = 0 THEN identity(o) ELSE Op(o, FoldLeft(o, v, n - 1), v[n])

Alive == {r \in Reducers : red[r].phase = "holding"}

AllMergedBut(r) == \A q \in Reducers : q # r => red[q].phase = "merged"

\* C4: reduction order independence. Whatever the order of the pairwise
\* combine calls, the one reducer left when every other replica has been
\* merged holds Op(...Op(id, v1)..., vN), and after the single resolve that
\* follows, *target is Op(Op(...Op(id, v1)..., vN), t0).
C4_OrderIndependence ==
  /\ \A r \in Reducers :
       (red[r].phase = "holding" /\ AllMergedBut(r)) =>
         red[r].val = FoldLeft(rop, contrib, Len(contrib))
  /\ (rhist.resolves = 1 /\ ~rhist.early) =>
       target = Op(rop, FoldLeft(rop, contrib, Len(contrib)), rhist.t0)

\* three replicas holding 1, 3 and 5 were merged into the third and resolved
\* once into a target that held 10
C4_Witness ==
  /\ rop = "plus" /\ contrib = <<1, 3, 5>> /\ rhist.t0 = 10
  /\ rhist.resolves = 1 /\ ~rhist.early
  /\ rhist.last.kind = "resolve" /\ rhist.last.out = 3
  /\ target = 19

\* C5: resolve accumulates into the target. After combine(out, in), out.val
\* is Op(old out.val, in.val); after resolve(red), *target is
\* Op(red.val, old *target): for addition, the sum of val and the old
\* *target, not val alone.
C5_ResolveAccumulates ==
  /\ rhist.last.kind = "combine" =>
       red[rhist.last.out].val = Op(rop, rhist.last.pre_out, rhist.last.pre_in)
  /\ rhist.last.kind = "resolve" =>
       /\ target = Op(rop, red[rhist.last.out].val, rhist.last.pre_target)
       /\ rop = "plus" =>
            target = (red[rhist.last.out].val + rhist.last.pre_target) % (TMax + 1)

\* addition, reducers holding 3 and 5, target 10: val = 8, then *target = 18
C5_Witness ==
  /\ rop = "plus" /\ contrib = <<3, 5>> /\ rhist.t0 = 10
  /\ rhist.last.kind = "resolve" /\ rhist.resolves = 1
  /\ red[rhist.last.out].val = 8
  /\ target = 18

\* the reducers other than r whose val a step left as it was
ValsKeptBut(S) == \A q \in Reducers \ S : red'[q].val = red[q].val

\* C19: the target is written only by resolve. A step that is an init call
\* changes no val but that of its reducer and leaves *target alone; a
\* combine(out, in) step changes no val but out.val (in.val stays) and leaves
\* *target alone; a resolve step changes no val at all; so *target is its
\* initial value until the first resolve, and every change of *target is one
\* resolve call: a run of combines followed by one resolve writes it once.
C19_TargetWrittenByResolve ==
  /\ [][LET op == rhist'.last
        IN  /\ op.kind = "init" => (target' = target /\ ValsKeptBut({op.out}))
            /\ op.kind = "combine" => (target' = target /\ ValsKeptBut({op.out}))
            /\ op.kind = "resolve" => ValsKeptBut({})
            /\ target' # target =>
                 (op.kind = "resolve" /\ rhist'.resolves = rhist.resolves + 1)]_vars
  /\ [](rhist.resolves = 0 => target = rhist.t0)

\* three replicas were merged into one and resolved once: the target moved
\* from 10 to 19 in that one step, and the reducer still holds 9
C19_Witness ==
  /\ rop = "plus" /\ contrib = <<1, 3, 5>> /\ rhist.t0 = 10
  /\ rhist.resolves = 1 /\ ~rhist.early /\ rhist.last.kind = "resolve"
  /\ rhist.last.pre_target = 10 /\ target = 19
  /\ red[rhist.last.out].val = 9
  /\ \A q \in Reducers \ {rhist.last.out} : red[q].phase = "merged"

RECURSIVE SumVals(_)
SumVals(S) ==
  IF S = {} THEN 0
  ELSE LET q == CHOOSE x \in S : TRUE IN red[q].val + SumVals(S \ {q})

RECURSIVE SumContrib(_)
SumContrib(n) == IF n = 0 THEN 0 ELSE contrib[n] + SumContrib(n - 1)

\* the replicas other than r that still wait to be combined
Pending(r) == {q \in Reducers \ {r} : red[q].phase = "holding"}

\* C20: resolve is not guarded against misuse. Every resolve call applies the
\* reducer's val to *target, whatever came before: a second resolve right
\* after the first, on the same reducer, applies val again (for addition
\* *target becomes t + 2*val, t being *target before the first); a first
\* resolve made while other replicas still wait to be combined leaves
\* exactly their vals out of *target (for addition).
C20_ResolveUnguarded ==
  [][rhist'.last.kind = "resolve" =>
       LET r == rhist'.last.out
       IN  /\ target' = Op(rop, red[r].val, target)
           /\ (rhist.last.kind = "resolve" /\ rhist.last.out = r) =>
                /\ target' = Op(rop, rhist.last.pre_out,
                                Op(rop, rhist.last.pre_out, rhist.last.pre_target))
                /\ rop = "plus" =>
                     target' = (rhist.last.pre_target + 2 * rhist.last.pre_out)
                                 % (TMax + 1)
           /\ (rop = "plus" /\ rhist.resolves = 0
                 /\ \A q \in Reducers : red[q].phase \in {"holding", "merged"}) =>
                (target' + SumVals(Pending(r))) % (TMax + 1)
                  = (rhist.t0 + SumContrib(Len(contrib))) % (TMax + 1)]_vars

\* addition, replicas holding 3 and 5, target 10, never combined: the first
\* was resolved twice, so *target is 10 + 2*3 and the 5 is left out
C20_Witness ==
  /\ rop = "plus" /\ contrib = <<3, 5>> /\ rhist.t0 = 10
  /\ rhist.resolves = 2 /\ rhist.early
  /\ rhist.last.kind = "resolve" /\ rhist.last.out = 1
  /\ rhist.last.pre_target = 13
  /\ red[2].phase = "holding" /\ red[2].val = 5
  /\ target = 16

----------------------------------------------------------------------------
(* Properties of the ForICount executors *)

\* the offsets of the calls of thread t that were made with active = TRUE
ActiveOffsets(t) == {calls[t][n].offset : n \in {k \in DOMAIN calls[t] : calls[t][k].active}}

\* the (thread, call) pairs that ran index k as active
ActiveVisits(k) ==
  {tn \in UNION {{<<t, n>> : n \in DOMAIN calls[t]} : t \in Threads} :
     /\ calls[tn[1]][tn[2]].active
     /\ calls[tn[1]][tn[2]].offset = k}

\* the natural index of a direct-mapped unit
NaturalIndex(t) ==
  IF policy \in MaskedPolicies THEN (t \div Pow2(mask.shift)) % Pow2(mask.width) ELSE t

\* s units with start indices 0..s-1 and stride s, all entered as active
StridedUnits ==
  /\ policy \in LoopPolicies
  /\ blockDim = i_stride_of(policy, mask, blockDim)
  /\ {i_init_of(policy, mask, t) : t \in Threads} = 0 .. (blockDim - 1)
  /\ \A t \in Threads : tactive[t]

\* C1: strided loop coverage. With s units of start indices 0..s-1, stride s
\* and thread_active true, no index is ever run as active twice and no index
\* outside [0, len) is run as active; once every unit has returned, every
\* index of 0..len-1 was run as active exactly once, unit u having run
\* exactly the indices congruent to u modulo s.
C1_StridedCoverage ==
  StridedUnits =>
    /\ \A k \in 0 .. (len + blockDim) : Cardinality(ActiveVisits(k)) <= 1
    /\ \A t \in Threads : ActiveOffsets(t) \subseteq 0 .. (len - 1)
    /\ AllDone =>
         /\ \A k \in 0 .. (len - 1) : Cardinality(ActiveVisits(k)) = 1
         /\ \A t \in Threads :
              ActiveOffsets(t) =
                {k \in 0 .. (len - 1) : k % blockDim = i_init_of(policy, mask, t)}

\* two units have shared three indices between them: {0,2} and {1}
C1_Witness ==
  /\ StridedUnits /\ AllDone
  /\ blockDim = 2 /\ len = 3
  /\ UNION {ActiveOffsets(t) : t \in Threads} = {0, 1, 2}

\* C2: boundary masking of the direct executors. A direct executor invokes
\* the enclosed statements exactly once per exec call (never before the call,
\* once after it), with active true iff thread_active is true and the unit's
\* natural index is below len; for len = 0 no call is active.
C2_DirectMasking ==
  policy \in DirectPolicies =>
    \A t \in Threads :
      /\ fpc[t] # "done" => calls[t] = << >>
      /\ fpc[t] = "done" =>
           /\ Len(calls[t]) = 1
           /\ calls[t][1].active = (tactive[t] /\ NaturalIndex(t) < len)
           /\ calls[t][1].offset = NaturalIndex(t)
      /\ len = 0 => ActiveOffsets(t) = {}

\* a block of direct units with one unit in bounds and active, one out of bounds
C2_Witness ==
  /\ policy \in DirectPolicies /\ AllDone
  /\ \E t \in Threads : calls[t][1].active
  /\ \E t \in Threads : tactive[t] /\ ~calls[t][1].active

\* C3: in-bounds invariant. In every executor, a call of the enclosed
\* statements with active = TRUE has an offset slot i with 0 <= i < len.
C3_ActiveInBounds ==
  \A t \in Threads : \A n \in DOMAIN calls[t] :
    calls[t][n].active =>
      /\ 0 <= calls[t][n].offset
      /\ calls[t][n].offset < len

\* an index >= len reached the enclosed statements of an active thread,
\* masked off, and the thread went on to return
C3_Witness ==
  \E t \in Threads :
    /\ tactive[t] /\ fpc[t] = "done"
    /\ \E n \in DOMAIN calls[t] : ~calls[t][n].active /\ calls[t][n].offset >= len
    /\ \E n \in DOMAIN calls[t] : calls[t][n].active

\* C10: sequential coverage and order. The seq_exec executor has, at every
\* point of its loop, invoked the enclosed statements with offsets
\* 0, 1, ..., i-1 in that order; when it returns it has made exactly len
\* calls, with offsets 0 .. len-1 ascending; for len = 0 it makes no call
\* and writes no offset or parameter slot.
C10_SeqCoverage ==
  policy = "seq_exec" =>
    \A t \in Threads :
      /\ Len(calls[t]) = ii[t]
      /\ \A n \in DOMAIN calls[t] : calls[t][n].offset = n - 1
      /\ fpc[t] = "done" => Len(calls[t]) = len
      /\ len = 0 => /\ calls[t] = << >>
                    /\ data[t] = Data0

\* a sequential loop of three or more iterations has returned
C10_Witness ==
  /\ policy = "seq_exec" /\ AllDone /\ len >= 3
  /\ \A t \in Threads : Len(calls[t]) = len /\ calls[t][len].offset = len - 1

\* C11 as stated: the seq_exec executor invokes the enclosed statements with
\* active = TRUE on every iteration, whatever thread_active it was entered with.
C11_SeqAlwaysActive ==
  policy = "seq_exec" =>
    \A t \in Threads : \A n \in DOMAIN calls[t] : calls[t][n].active

\* C11, amended: the seq_exec executor invokes the enclosed statements on
\* every iteration of [0, len) with active equal to the thread_active flag it
\* was entered with; it adds no bound test of its own, so a unit entered as
\* active is active on every iteration and a unit entered as inactive on none.
C11_SeqPassesActive ==
  policy = "seq_exec" =>
    \A t \in Threads :
      /\ \A n \in DOMAIN calls[t] : calls[t][n].active = tactive[t]
      /\ fpc[t] = "done" => Len(calls[t]) = len

\* a sequential loop entered as inactive has run all its iterations inactive,
\* next to one entered as active
C11_Witness ==
  /\ policy = "seq_exec" /\ AllDone /\ len >= 2
  /\ \E t \in Threads : ~tactive[t] /\ \A n \in 1 .. len : ~calls[t][n].active
  /\ \E t \in Threads : tactive[t] /\ \A n \in 1 .. len : calls[t][n].active

MaskedDirectPolicies == {"hip_warp_masked_direct", "hip_thread_masked_direct"}

\* C12: masked-lane transparency. A masked direct executor run by unit u
\* leaves the same context (offset slot, parameter slot) and makes the same
\* single call of the enclosed statements (same slots, same active flag) as
\* the plain direct executors HipIndexDirect and hip_warp_direct run with
\* natural index Mask::maskValue(u), for the same len and thread_active.
C12_MaskTransparency ==
  policy \in MaskedDirectPolicies =>
    \A t \in Threads :
      fpc[t] = "done" =>
        LET u     == maskValue(mask, t)
            plain == HipIndexDirect_exec(Data0, u, len, tactive[t])
            warp  == hip_warp_direct_exec(Data0, u, len, tactive[t])
        IN  /\ data[t] = plain.data /\ calls[t] = <<plain.call>>
            /\ data[t] = warp.data /\ calls[t] = <<warp.call>>

\* masked direct units whose masked index differs from their unit id, one
\* of them run as active and one masked off by the bound
C12_Witness ==
  /\ policy \in MaskedDirectPolicies /\ AllDone
  /\ \E t \in Threads :
       /\ maskValue(mask, t) # t
       /\ calls[t][1].offset = maskValue(mask, t) /\ calls[t][1].active
  /\ \E t \in Threads : tactive[t] /\ ~calls[t][1].active

\* C13: a mask whose max_masked_size exceeds the hardware width (WARP_SIZE)
\* fails the build for each of the four masked policies, so no executor of a
\* masked policy ever runs with such a mask.
C13_MaskTooLargeRejected ==
  (policy \in MaskedPolicies /\ max_masked_size(mask) > WARP_SIZE) =>
    \A t \in Threads : fpc[t] = "entry"

----------------------------------------------------------------------------
(* Properties of the fused multiply-add node *)

\* C14: fused multiply-add evaluation. Every eval(tile) makes exactly one
\* multiply_add call, with (tile, left, right, add) in that order, where left,
\* right and add are the operands the node was constructed with; it returns
\* that call's result, left*right + add on the tile; and the three stored
\* operands are the constructor's operands after any number of eval calls.
C14_FusedMultiplyAdd ==
  tma # NoNode =>
    /\ tma = TensorMultiplyAdd_new(tma_in.left, tma_in.right, tma_in.add)
    /\ Len(tma_calls) = Len(tma_rets)
    /\ \A n \in DOMAIN tma_rets :
         LET tile == tma_rets[n].tile
         IN  /\ tma_calls[n] = [tile |-> tile, left |-> tma_in.left,
                                right |-> tma_in.right, add |-> tma_in.add]
             /\ tma_rets[n].value =
                  tma_in.left[tile] * tma_in.right[tile] + tma_in.add[tile]

\* a node whose add operand differs from both factors was evaluated on two
\* tiles: 2*2 + 1 on tile 0 and 1*2 + 0 on tile 1
C14_Witness ==
  /\ Len(tma_rets) = 2
  /\ tma_in.left = [x \in Tiles |-> IF x = 0 THEN 2 ELSE 1]
  /\ tma_in.right = [x \in Tiles |-> 2]
  /\ tma_in.add = [x \in Tiles |-> IF x = 0 THEN 1 ELSE 0]
  /\ tma_rets = <<[tile |-> 0, value |-> 5], [tile |-> 1, value |-> 2]>>

\* the index the executor computes for the n-th iteration of thread t
IterIndex(t, n) ==
  IF policy \in DirectPolicies THEN NaturalIndex(t)
  ELSE IF policy = "seq_exec" THEN n - 1
  ELSE i_init_of(policy, mask, t) + (n - 1) * i_stride_of(policy, mask, blockDim)

\* C15: per-iteration ordering. In every executor the n-th invocation of the
\* enclosed statements sees exactly n assignments of the offset slot and n
\* of the parameter slot (one of each per iteration, made before the
\* invocation), both slots holding the index computed for that iteration;
\* and no slot is assigned outside an iteration.
C15_IterationOrder ==
  \A t \in Threads :
    /\ data[t].offset_writes = Len(calls[t])
    /\ data[t].param_writes = Len(calls[t])
    /\ \A n \in DOMAIN calls[t] :
         /\ calls[t][n].offset_writes = n
         /\ calls[t][n].param_writes = n
         /\ calls[t][n].offset = IterIndex(t, n)
         /\ calls[t][n].param = IterIndex(t, n)

\* a masked strided unit with a non-zero start index is in its second iteration
C15_Witness ==
  /\ policy = "hip_thread_masked_loop"
  /\ \E t \in Threads :
       /\ i_init_of(policy, mask, t) > 0
       /\ Len(calls[t]) = 2
       /\ calls[t][2].offset = calls[t][2].param
       /\ calls[t][2].offset > calls[t][1].offset

\* ceil(a / b) for b > 0
CeilDiv(a, b) == (a + b - 1) \div b

\* C16: lock-step iteration count. In a strided executor every unit invokes
\* the enclosed statements ceil(len / stride) times before it returns and
\* never more often, whatever its start index and its incoming thread_active;
\* an iteration whose index is out of bounds is still invoked, with
\* active = FALSE.
C16_LockStepCount ==
  policy \in LoopPolicies =>
    LET n_iter == CeilDiv(len, i_stride_of(policy, mask, blockDim))
    IN  \A t \in Threads :
          /\ Len(calls[t]) <= n_iter
          /\ fpc[t] = "done" => Len(calls[t]) = n_iter
          /\ \A n \in DOMAIN calls[t] :
               calls[t][n].offset >= len => ~calls[t][n].active

\* units with different start indices, one entered as inactive and one
\* without work in its last iteration, have all made the same two calls
C16_Witness ==
  /\ policy \in LoopPolicies /\ AllDone /\ blockDim >= 2
  /\ \A t \in Threads : Len(calls[t]) = 2
  /\ \E t \in Threads : ~tactive[t]
  /\ \E t \in Threads :
       tactive[t] /\ calls[t][1].active
         /\ calls[t][2].offset >= len /\ ~calls[t][2].active

\* C17 as stated: a strided executor never assigns the offset slot an index
\* that is >= len.
C17_OffsetBelowLen ==
  policy \in LoopPolicies =>
    \A t \in Threads : \A n \in DOMAIN calls[t] : calls[t][n].offset < len

\* C17, amended: a strided unit iterates while k*stride < len, k = 0, 1, ...
\* (the test is on the chunk start, not on the unit's own index); in
\* iteration k it assigns base + k*stride to the offset slot, which may be
\* >= len, and then the enclosed statements are invoked with active = FALSE;
\* the unit returns at the first k with k*stride >= len.
C17_StridedChunks ==
  policy \in LoopPolicies =>
    LET base(t) == i_init_of(policy, mask, t)
        stride  == i_stride_of(policy, mask, blockDim)
    IN  \A t \in Threads :
          /\ \A n \in DOMAIN calls[t] :
               /\ (n - 1) * stride < len
               /\ calls[t][n].offset = base(t) + (n - 1) * stride
               /\ calls[t][n].active = (tactive[t] /\ calls[t][n].offset < len)
          /\ fpc[t] = "loop" => ii[t] = Len(calls[t]) * stride
          /\ fpc[t] = "done" => Len(calls[t]) * stride >= len

\* a strided unit has returned after its offset slot was assigned an index
\* beyond len: base + stride with stride < len <= base + stride
C17_Witness ==
  /\ policy \in LoopPolicies
  /\ \E t \in Threads :
       /\ fpc[t] = "done" /\ Len(calls[t]) = 2
       /\ calls[t][2].offset > len
       /\ data[t].offset = calls[t][2].offset

\* what is left of thread t's exec call, in steps
Rank(t) ==
  CASE fpc[t] = "entry" -> len + 2
    [] fpc[t] = "loop"  -> (IF ii[t] < len THEN len - ii[t] ELSE 0) + 1
    [] fpc[t] = "done"  -> 0

RECURSIVE RankSum(_)
RankSum(n) == IF n = 0 THEN 0 ELSE Rank(n - 1) + RankSum(n - 1)

\* thread t has made the invocations of a whole exec call: one (direct),
\* len (sequential), or the least n with n * stride >= len (strided)
MadeAllCalls(t) ==
  LET n == Len(calls[t])
      stride == i_stride_of(policy, mask, blockDim)
  IN  IF policy \in DirectPolicies THEN n = 1
      ELSE IF policy = "seq_exec" THEN n = len
      ELSE /\ n * stride >= len
           /\ n > 0 => (n - 1) * stride < len

\* C18: termination. Every step of a thread's exec call strictly decreases
\* a natural-number measure of the block (so no exec call can run forever),
\* a thread that has not returned can always take its next step (so it never
\* hangs), and a thread that has returned has made its finite number of
\* invocations: one for a direct executor, len for the sequential one,
\* ceil(len / stride) chunks for a strided one.
C18_Termination ==
  /\ [][RankSum(blockDim)' < RankSum(blockDim)]_vars
  /\ [](RankSum(blockDim) >= 0)
  /\ [](\A t \in Threads : fpc[t] # "done" => ENABLED ThreadStep(t))
  /\ [](\A t \in Threads : fpc[t] = "done" => MadeAllCalls(t))

\* a block of three strided units over three indices has returned, after
\* more than one chunk each
C18_Witness ==
  /\ policy \in LoopPolicies /\ AllDone
  /\ blockDim = 3 /\ len = 3
  /\ \A t \in Threads : MadeAllCalls(t) /\ Len(calls[t]) >= 2

\* C22: the active mask only narrows. In every executor a call of the
\* enclosed statements with active = TRUE is made by a thread that entered
\* exec with thread_active = TRUE; a thread entered as inactive has every
\* call inactive, and still has its offset and parameter slots assigned
\* once per call.
C22_ActiveOnlyNarrows ==
  \A t \in Threads :
    /\ \A n \in DOMAIN calls[t] : calls[t][n].active => tactive[t]
    /\ ~tactive[t] =>
         /\ data[t].offset_writes = Len(calls[t])
         /\ data[t].param_writes = Len(calls[t])
         /\ \A n \in DOMAIN calls[t] :
              calls[t][n].offset = IterIndex(t, n) /\ calls[t][n].param = IterIndex(t, n)

\* a thread entered as inactive has returned after a call whose index was in
\* bounds (the slots were written, the call was inactive), next to a thread
\* entered as active whose first call was active
C22_Witness ==
  /\ len >= 1
  /\ \E t \in Threads :
       /\ ~tactive[t] /\ fpc[t] = "done" /\ Len(calls[t]) >= 1
       /\ calls[t][1].offset < len /\ ~calls[t][1].active
       /\ data[t].offset_writes >= 1 /\ data[t].param_writes >= 1
  /\ \E t \in Threads : tactive[t] /\ fpc[t] = "done" /\ calls[t][1].active

\* C23: in the hip_warp_loop executor (start index threadIdx.x, stride
\* WARP_SIZE) no index of [0, len) is run as active by two threads with
\* different threadIdx.x, whatever the x-extent of the block.
C23_WarpLoopNoDoubleRun ==
  policy = "hip_warp_loop" =>
    \A k \in 0 .. (len - 1) :
      \A a, b \in ActiveVisits(k) : a[1] = b[1]

\* C21: boundary arithmetic stays inside the difference type. In a strided
\* executor, for every len up to the maximum of diff_t, neither
\* ii += i_stride nor i = ii + i_init leaves the range of diff_t: no thread
\* ever reaches undefined behaviour.
C21_NoDiffOverflow ==
  \A t \in Threads : fpc[t] # "undefined"

====
